---- MODULE Spec2Model ----
\* A model of the pybind11_protobuf reflection bridge: construction of wrapped
\* messages, the attribute protocol, and the repeated/map container proxies.
EXTENDS Integers, Sequences, FiniteSets, TLC

\* ---------------------------------------------------------------- bounds
\* Longest keyword-argument list a host call passes.
MaxKwargs == 2
\* Longest repeated field the operations grow.
MaxLen == 3
\* The number of host objects the lifetime machine creates.
MaxObjs == 5
\* The number of derived maps after which the host stops reading lazy properties.
MaxGen == 5

\* ------------------------------------------------------- descriptor pool
\* The generated pool holds two message types, one group type, three map-entry
\* types and one enum type.
PoolMessageTypes ==
  {"pkg.Pair", "pkg.Inner", "pkg.Pair.G", "pkg.Pair.MEntry", "pkg.Pair.MmEntry",
   "pkg.Pair.MiEntry"}

PoolEnumTypes == {"pkg.Color"}

FieldDesc(name, type, label, message_type, map_entry) ==
  [name |-> name, type |-> type, label |-> label, message_type |-> message_type,
   map_entry |-> map_entry]

\* message Pair { optional int32 a; optional Color e; optional Inner sub;
\*                optional group G g; repeated int32 xs; repeated Inner rm;
\*                map<string,int32> m; map<string,Inner> mm; map<int32,Inner> mi; }
\* message Inner { optional int32 v; }
DescriptorFields(type) ==
  CASE type = "pkg.Pair" ->
         {FieldDesc("a", "TYPE_INT32", "LABEL_OPTIONAL", "", FALSE),
          FieldDesc("e", "TYPE_ENUM", "LABEL_OPTIONAL", "", FALSE),
          FieldDesc("sub", "TYPE_MESSAGE", "LABEL_OPTIONAL", "pkg.Inner", FALSE),
          FieldDesc("g", "TYPE_GROUP", "LABEL_OPTIONAL", "pkg.Pair.G", FALSE),
          FieldDesc("xs", "TYPE_INT32", "LABEL_REPEATED", "", FALSE),
          FieldDesc("rm", "TYPE_MESSAGE", "LABEL_REPEATED", "pkg.Inner", FALSE),
          FieldDesc("rp", "TYPE_MESSAGE", "LABEL_REPEATED", "pkg.Pair", FALSE),
          FieldDesc("m", "TYPE_MESSAGE", "LABEL_REPEATED", "pkg.Pair.MEntry", TRUE),
          FieldDesc("mm", "TYPE_MESSAGE", "LABEL_REPEATED", "pkg.Pair.MmEntry", TRUE),
          FieldDesc("mi", "TYPE_MESSAGE", "LABEL_REPEATED", "pkg.Pair.MiEntry", TRUE)}
    [] type \in {"pkg.Inner", "pkg.Pair.G"} ->
         {FieldDesc("v", "TYPE_INT32", "LABEL_OPTIONAL", "", FALSE)}
    [] type = "pkg.Pair.MEntry" ->
         {FieldDesc("key", "TYPE_STRING", "LABEL_OPTIONAL", "", FALSE),
          FieldDesc("value", "TYPE_INT32", "LABEL_OPTIONAL", "", FALSE)}
    [] type = "pkg.Pair.MmEntry" ->
         {FieldDesc("key", "TYPE_STRING", "LABEL_OPTIONAL", "", FALSE),
          FieldDesc("value", "TYPE_MESSAGE", "LABEL_OPTIONAL", "pkg.Inner", FALSE)}
    [] type = "pkg.Pair.MiEntry" ->
         {FieldDesc("key", "TYPE_INT32", "LABEL_OPTIONAL", "", FALSE),
          FieldDesc("value", "TYPE_MESSAGE", "LABEL_OPTIONAL", "pkg.Inner", FALSE)}
    [] OTHER -> {}

AllTypes == PoolMessageTypes \cup PoolEnumTypes

\* The null pointer FindFieldByName returns.
NullDesc == FieldDesc("", "", "", "", FALSE)

FieldNamesTable == [type \in AllTypes |-> {fd.name : fd \in DescriptorFields(type)}]

FieldNames(type) == IF type \in AllTypes THEN FieldNamesTable[type] ELSE {}

FieldTable ==
  [type \in AllTypes |->
    [n \in FieldNamesTable[type] |->
      CHOOSE fd \in DescriptorFields(type) : fd.name = n]]

\* Descriptor::FindFieldByName.
FindFieldByName(type, name) ==
  IF name \in FieldNames(type) THEN FieldTable[type][name] ELSE NullDesc

\* FieldDescriptor::is_map / is_repeated / cpp_type.
is_map(fd) == fd.map_entry
is_repeated(fd) == fd.label = "LABEL_REPEATED"
IsMessageCategory(fd) == fd.type \in {"TYPE_MESSAGE", "TYPE_GROUP"}

\* ------------------------------------------------------------ host values
\* A host object handed across the boundary, tagged by its host type.
EmptyMap == [k \in {} |-> 0]

PyNone == [t |-> "none"]
PyInt(i) == [t |-> "int", i |-> i]
\* A host integer beyond 32 bits, such as 2**31.
PyBigInt == [t |-> "bigint"]
PyStr(s) == [t |-> "str", s |-> s]
PyList(l) == [t |-> "list", l |-> l]
PyDict(d) == [t |-> "dict", d |-> d]
\* A wrapped C proto or a sibling native proto: both expose DESCRIPTOR.full_name.
PyProto(kind, msg) == [t |-> kind, msg |-> msg]
\* An object with a DESCRIPTOR attribute that has no full_name.
PyOddDescriptor == [t |-> "odd_descriptor"]
\* An object whose DESCRIPTOR has a full_name and that has no SerializeToString.
PyNameOnly(name) == [t |-> "nameonly", msg |-> [type |-> name, fields |-> EmptyMap]]
\* A descriptor view: its full_name attribute.
PyDescriptor(full_name) == [t |-> "descriptor", full_name |-> full_name]

\* ---------------------------------------------------------------- messages
RECURSIVE DefaultInstance(_)
DefaultInstance(type) ==
  [type |-> type,
   fields |-> [n \in FieldNames(type) |->
     LET fd == FindFieldByName(type, n) IN
       IF is_map(fd) THEN EmptyMap
       ELSE IF is_repeated(fd) THEN <<>>
       ELSE IF IsMessageCategory(fd) THEN DefaultInstance(fd.message_type)
       ELSE 0]]

\* MessageFactory::generated_factory()->GetPrototype per message type.
Prototypes == [type \in PoolMessageTypes |-> DefaultInstance(type)]

\* prototype->New(): a default instance of the type.
NewMessage(type) == Prototypes[type]

NoMsg == [type |-> "", fields |-> EmptyMap]

\* ---------------------------------------------------------------- outcomes
\* What a call into the bridge produces: the exception it raises ("none" when it
\* returns), the exception's text, the message it acted on as it is afterwards,
\* and the field lookups and reflection handlers it reached, in order.
Call(h, name) == [h |-> h, name |-> name]
Outcome(exc, text, msg, calls) ==
  [exc |-> exc, text |-> text, msg |-> msg, calls |-> calls]
Returned(msg, calls) == Outcome("none", <<>>, msg, calls)

\* --------------------------------------------------------- scalar coercion
\* Conversion of a host value to the field's declared category: "ok", or the
\* error kind the failed conversion raises.
CoerceScalar(fd, value) ==
  CASE fd.type = "TYPE_INT32" ->
         IF value.t = "bigint" THEN "RangeError"
         ELSE IF value.t # "int" THEN "TypeMismatchError"
         ELSE "ok"
    [] fd.type = "TYPE_ENUM" ->
         IF value.t # "int" THEN "TypeMismatchError"
         ELSE IF value.i \notin {0, 1, 2} THEN "TypeMismatchError"
         ELSE "ok"
    [] fd.type = "TYPE_STRING" ->
         IF value.t # "str" THEN "TypeMismatchError" ELSE "ok"
    [] OTHER -> "TypeMismatchError"

IsProto(value) == value.t \in {"wrapped", "native"}

\* What a host scalar or proto carries across the boundary.
Payload(value) ==
  CASE value.t = "int" -> value.i
    [] value.t = "str" -> value.s
    [] IsProto(value) -> value.msg

\* Message::MergeFrom for messages of one type: set scalars overwrite, repeated
\* fields concatenate, map entries overwrite per key, sub-messages merge.
RECURSIVE MergeMessage(_, _)
MergeMessage(dst, src) ==
  [type |-> dst.type,
   fields |-> [n \in FieldNames(dst.type) |->
     LET fd == FindFieldByName(dst.type, n)
         d == dst.fields[n]
         s == src.fields[n] IN
       IF is_map(fd)
         THEN [k \in DOMAIN d \cup DOMAIN s |-> IF k \in DOMAIN s THEN s[k] ELSE d[k]]
       ELSE IF is_repeated(fd) THEN d \o s
       ELSE IF IsMessageCategory(fd) THEN MergeMessage(d, s)
       ELSE IF s # 0 THEN s ELSE d]]

SetField(msg, name, value) ==
  [msg EXCEPT !.fields = [msg.fields EXCEPT ![name] = value]]

\* SetProtoSingularField: a scalar or enum is written after coercion, None
\* clears the field, and a message-category field merges from a proto of its
\* own type.
SetProtoSingularField(fd, msg, value) ==
  LET calls == <<Call("SetProtoSingularField", fd.name)>> IN
  IF IsMessageCategory(fd) THEN
    IF IsProto(value) /\ value.msg.type = fd.message_type
      THEN Returned(SetField(msg, fd.name,
                             MergeMessage(msg.fields[fd.name], value.msg)), calls)
      ELSE Outcome("TypeMismatchError", <<>>, msg, calls)
  ELSE IF value.t = "none" THEN Returned(SetField(msg, fd.name, 0), calls)
  ELSE IF CoerceScalar(fd, value) # "ok"
    THEN Outcome(CoerceScalar(fd, value), <<>>, msg, calls)
  ELSE Returned(SetField(msg, fd.name, Payload(value)), calls)

\* Whether one element of an iterable fits the repeated field's element type.
CoerceElement(fd, value) ==
  IF IsMessageCategory(fd)
    THEN IF IsProto(value) /\ value.msg.type = fd.message_type
           THEN "ok" ELSE "TypeMismatchError"
    ELSE CoerceScalar(fd, value)

\* The elements of `items` appended to `elems` in iteration order, up to the
\* first one that fails coercion; what was appended before it stays.
RECURSIVE ExtendFrom(_, _, _, _)
ExtendFrom(fd, elems, items, i) ==
  IF i > Len(items) THEN [exc |-> "none", elems |-> elems]
  ELSE IF CoerceElement(fd, items[i]) # "ok"
    THEN [exc |-> CoerceElement(fd, items[i]), elems |-> elems]
  ELSE ExtendFrom(fd, Append(elems, Payload(items[i])), items, i + 1)

\* SetProtoRepeatedField: extend the field from a host iterable.
SetProtoRepeatedField(fd, msg, value) ==
  LET calls == <<Call("SetProtoRepeatedField", fd.name)>> IN
  IF value.t # "list" THEN Outcome("TypeMismatchError", <<>>, msg, calls)
  ELSE LET r == ExtendFrom(fd, msg.fields[fd.name], value.l, 1) IN
       Outcome(r.exc, <<>>, SetField(msg, fd.name, r.elems), calls)

\* ------------------------------------------------------ the host's protos
\* hasattr(py_proto, "DESCRIPTOR") and hasattr(descriptor, "full_name").
HasDescriptor(py_proto) ==
  py_proto.t \in {"wrapped", "native", "nameonly", "odd_descriptor"}
HasFullName(py_proto) == py_proto.t \in {"wrapped", "native", "nameonly"}

NoName == [has |-> FALSE, name |-> ""]

\* PyProtoFullName: DESCRIPTOR.full_name of the object, or nullopt.
PyProtoFullName(py_proto) ==
  IF HasDescriptor(py_proto) /\ HasFullName(py_proto)
    THEN [has |-> TRUE, name |-> py_proto.msg.type]
    ELSE NoName

\* A resolution that lacks the text-string branch.
ResolveFullTypeName_NoStr(py_proto) ==
  IF PyProtoFullName(py_proto).has
    THEN [exc |-> "none", name |-> PyProtoFullName(py_proto).name]
  ELSE [exc |-> "invalid_argument", name |-> ""]

\* The first half of PyProtoAllocateMessage: the full type name of a text
\* string or of a proto, or invalid_argument.
ResolveFullTypeName(py_proto) ==
  IF py_proto.t = "str" THEN [exc |-> "none", name |-> py_proto.s]
  ELSE IF PyProtoFullName(py_proto).has
    THEN [exc |-> "none", name |-> PyProtoFullName(py_proto).name]
  ELSE [exc |-> "invalid_argument", name |-> ""]

\* DescriptorPool::generated_pool()->FindMessageTypeByName: non-null only for
\* a message type of the pool.
FindMessageTypeByName(full_type_name) == full_type_name \in PoolMessageTypes

\* A lookup whose error text names the wrapper class, not the message type.
GetFieldDescriptor_ClassName(message, name) ==
  LET field_desc == FindFieldByName(message.type, name) IN
  IF field_desc = NullDesc
    THEN [exc |-> "AttributeError",
          text |-> <<"'", "ProtoMessage", "' object has no attribute '", name, "'">>,
          fd |-> NullDesc]
    ELSE [exc |-> "none", text |-> <<>>, fd |-> field_desc]

\* GetFieldDescriptor: the field of that name, or AttributeError with the text
\* "'<type name>' object has no attribute '<name>'".
GetFieldDescriptor(message, name) ==
  LET field_desc == FindFieldByName(message.type, name) IN
  IF field_desc = NullDesc
    THEN [exc |-> "AttributeError",
          text |-> <<"'", message.type, "' object has no attribute '", name, "'">>,
          fd |-> NullDesc]
    ELSE [exc |-> "none", text |-> <<>>, fd |-> field_desc]

\* The body of ProtoInitAttrs' loop for one keyword whose field exists.
InitOneAttr(message, field_desc, val) ==
  IF is_map(field_desc) THEN Returned(message, <<>>)
  ELSE IF is_repeated(field_desc)
    THEN SetProtoRepeatedField(field_desc, message, val)
  ELSE SetProtoSingularField(field_desc, message, val)

\* ProtoInitAttrs: the keywords applied in order from the i-th on; the first
\* one that raises ends the loop with the earlier ones applied.
RECURSIVE ProtoInitAttrsFrom(_, _, _, _)
ProtoInitAttrsFrom(message, kwargs_in, i, calls) ==
  IF i > Len(kwargs_in) THEN Returned(message, calls)
  ELSE
    LET g == GetFieldDescriptor(message, kwargs_in[i].name)
        looked == Append(calls, Call("GetFieldDescriptor", kwargs_in[i].name)) IN
    IF g.exc # "none" THEN Outcome(g.exc, g.text, message, looked)
    ELSE
      LET r == InitOneAttr(message, g.fd, kwargs_in[i].value) IN
      IF r.exc # "none" THEN Outcome(r.exc, r.text, r.msg, looked \o r.calls)
      ELSE ProtoInitAttrsFrom(r.msg, kwargs_in, i + 1, looked \o r.calls)

ProtoInitAttrs(message, kwargs_in) == ProtoInitAttrsFrom(message, kwargs_in, 1, <<>>)

\* PyProtoAllocateMessage<proto2::Message>, bound as make_wrapped_c_proto. A
\* call that raises returns no message.
PyProtoAllocateMessage(py_proto, kwargs_in) ==
  LET n == ResolveFullTypeName(py_proto) IN
  IF n.exc # "none"
    THEN Outcome(n.exc, <<"Could not get the name of the proto.">>, NoMsg, <<>>)
  ELSE IF ~FindMessageTypeByName(n.name)
    THEN Outcome("runtime_error", <<"Proto Descriptor not found: ", n.name>>,
                 NoMsg, <<>>)
  ELSE LET r == ProtoInitAttrs(NewMessage(n.name), kwargs_in) IN
       IF r.exc # "none" THEN Outcome(r.exc, r.text, NoMsg, r.calls) ELSE r

\* What attribute read returns: a value copy, a child view that aliases the
\* sub-message, or a container proxy that aliases the field.
Handle(kind, name, value, elems) ==
  [kind |-> kind, name |-> name, value |-> value, elems |-> elems]
NoHandle == Handle("none", "", 0, <<>>)

GetProtoSingularField(field_desc, message) ==
  IF IsMessageCategory(field_desc)
    THEN Handle("message_view", field_desc.name, 0, <<>>)
    ELSE Handle("value", field_desc.name, message.fields[field_desc.name], <<>>)
GetProtoRepeatedField(field_desc, message) ==
  Handle("repeated_proxy", field_desc.name, 0, <<>>)
GetProtoMapField(field_desc, message) ==
  Handle("map_proxy", field_desc.name, 0, <<>>)

\* A read that hands a repeated field out by value, as a copy of its elements.
ProtoGetAttrDesc_CopyRepeated(message, field_desc) ==
  IF is_map(field_desc) THEN GetProtoMapField(field_desc, message)
  ELSE IF is_repeated(field_desc)
    THEN Handle("value", field_desc.name, 0, message.fields[field_desc.name])
  ELSE GetProtoSingularField(field_desc, message)

\* ProtoGetAttr(message, field_desc).
ProtoGetAttrDesc(message, field_desc) ==
  IF is_map(field_desc) THEN GetProtoMapField(field_desc, message)
  ELSE IF is_repeated(field_desc) THEN GetProtoRepeatedField(field_desc, message)
  ELSE GetProtoSingularField(field_desc, message)

\* ProtoGetAttr(message, name), bound as __getattr__.
ProtoGetAttr(message, name) ==
  LET g == GetFieldDescriptor(message, name)
      looked == <<Call("GetFieldDescriptor", name)>> IN
  IF g.exc # "none"
    THEN [exc |-> g.exc, text |-> g.text, ret |-> NoHandle, calls |-> looked]
    ELSE [exc |-> "none", text |-> <<>>,
          ret |-> ProtoGetAttrDesc(message, g.fd),
          calls |-> Append(looked, Call("ProtoGetAttr", name))]

\* The guard of ProtoSetAttr: the fields attribute assignment refuses.
AssignmentNotAllowed(field_desc) ==
  is_map(field_desc) \/ is_repeated(field_desc) \/ field_desc.type = "TYPE_MESSAGE"

\* ProtoSetAttr(message, name, value), bound as __setattr__.
ProtoSetAttr(message, name, value) ==
  LET g == GetFieldDescriptor(message, name)
      looked == <<Call("GetFieldDescriptor", name)>> IN
  IF g.exc # "none" THEN Outcome(g.exc, g.text, message, looked)
  ELSE IF AssignmentNotAllowed(g.fd)
    THEN Outcome("AttributeError",
                 <<"Assignment not allowed to field \"", name,
                   "\" in protocol message object.">>, message, looked)
  ELSE LET r == SetProtoSingularField(g.fd, message, value) IN
       Outcome(r.exc, r.text, r.msg, looked \o r.calls)

\* ------------------------------------------------------ repeated containers
\* The category the dispatcher binds a handler for.
Category(fd) ==
  CASE IsMessageCategory(fd) -> "Message"
    [] fd.type = "TYPE_INT32" -> "Int32"
    [] fd.type = "TYPE_ENUM" -> "Enum"
    [] fd.type = "TYPE_STRING" -> "String"

\* The ten categories BindEachFieldType instantiates the bindings with.
FieldTypes ==
  {"Int32", "Int64", "UInt32", "UInt64", "Float", "Double", "Bool", "String",
   "Message", "Enum"}

\* Bindings that give every element type a __setitem__ and no add.
RepeatedFieldBindings_SetItemForAll(T) ==
  [m \in {"__setitem__", "__repr__", "__len__", "__getitem__", "__delitem__",
          "MergeFrom", "extend", "append", "insert", "clear"} |->
     CASE m = "__setitem__" -> "SetItem"
       [] m = "__repr__" -> "Repr"
       [] m = "__len__" -> "Size"
       [] m = "__getitem__" -> "GetItem"
       [] m = "__delitem__" -> "DelItem"
       [] m \in {"MergeFrom", "extend"} -> "Extend"
       [] m = "append" -> "Append"
       [] m = "insert" -> "Insert"
       [] m = "clear" -> "Clear"]

\* Bindings whose insert is bound to the Append member.
RepeatedFieldBindings_InsertAppends(T) ==
  [m \in {IF T = "Message" THEN "add" ELSE "__setitem__"} \cup
         {"__repr__", "__len__", "__getitem__", "__delitem__", "MergeFrom",
          "extend", "append", "insert", "clear"} |->
     CASE m = "add" -> "Add"
       [] m = "__setitem__" -> "SetItem"
       [] m = "__repr__" -> "Repr"
       [] m = "__len__" -> "Size"
       [] m = "__getitem__" -> "GetItem"
       [] m = "__delitem__" -> "DelItem"
       [] m \in {"MergeFrom", "extend"} -> "Extend"
       [] m \in {"append", "insert"} -> "Append"
       [] m = "clear" -> "Clear"]

\* RepeatedFieldBindings<T>: the host method names the class of element type T
\* defines, each with the container member it is bound to.
RepeatedFieldBindings(T) ==
  [m \in {IF T = "Message" THEN "add" ELSE "__setitem__"} \cup
         {"__repr__", "__len__", "__getitem__", "__delitem__", "MergeFrom",
          "extend", "append", "insert", "clear"} |->
     CASE m = "add" -> "Add"
       [] m = "__setitem__" -> "SetItem"
       [] m = "__repr__" -> "Repr"
       [] m = "__len__" -> "Size"
       [] m = "__getitem__" -> "GetItem"
       [] m = "__delitem__" -> "DelItem"
       [] m \in {"MergeFrom", "extend"} -> "Extend"
       [] m = "append" -> "Append"
       [] m = "insert" -> "Insert"
       [] m = "clear" -> "Clear"]

\* An index check that leaves a negative allowed size as it is.
CheckIndex_NoDefault(idx, allowed_size, size) ==
  IF idx < 0 \/ idx >= allowed_size THEN "out_of_range" ELSE "none"

\* ProtoFieldContainerBase::CheckIndex on a field of `size` elements.
CheckIndex(idx, allowed_size, size) ==
  LET allowed == IF allowed_size < 0 THEN size ELSE allowed_size IN
  IF idx < 0 \/ idx >= allowed THEN "out_of_range" ELSE "none"

\* What a container operation produces: the exception, the field's elements
\* afterwards and the object returned.
ContainerOut(exc, text, elems, ret, calls) ==
  [exc |-> exc, text |-> text, elems |-> elems, ret |-> ret, calls |-> calls]

\* A host index with the negative-index wrap applied.
WrapIndex(idx, size) == IF idx < 0 THEN idx + size ELSE idx

\* The object an element read returns: a value copy, or for a message element a
\* view of the element at that position.
ElementHandle(fd, elems, i) ==
  IF IsMessageCategory(fd)
    THEN Handle("message_view", fd.name, i, <<>>)
    ELSE Handle("value", fd.name, elems[i + 1], <<>>)

\* RepeatedFieldContainer<T>::GetItem.
RepGetItem(fd, elems, idx) ==
  LET i == WrapIndex(idx, Len(elems)) IN
  IF CheckIndex(i, -1, Len(elems)) # "none"
    THEN ContainerOut(CheckIndex(i, -1, Len(elems)), <<>>, elems, NoHandle, <<>>)
    ELSE ContainerOut("none", <<>>, elems, ElementHandle(fd, elems, i), <<>>)

\* RepeatedFieldContainer<T>::SetItem, scalar and enum elements only.
RepSetItem(fd, elems, idx, value) ==
  LET i == WrapIndex(idx, Len(elems)) IN
  IF IsMessageCategory(fd)
    THEN ContainerOut("TypeMismatchError", <<>>, elems, NoHandle, <<>>)
  ELSE IF CheckIndex(i, -1, Len(elems)) # "none"
    THEN ContainerOut(CheckIndex(i, -1, Len(elems)), <<>>, elems, NoHandle, <<>>)
  ELSE IF CoerceScalar(fd, value) # "ok"
    THEN ContainerOut(CoerceScalar(fd, value), <<>>, elems, NoHandle, <<>>)
  ELSE ContainerOut("none", <<>>, [elems EXCEPT ![i + 1] = Payload(value)],
                    NoHandle, <<>>)

\* The sequence without its element at 0-based position i.
RemoveAt(elems, i) ==
  [j \in 1..(Len(elems) - 1) |-> IF j <= i THEN elems[j] ELSE elems[j + 1]]

\* The sequence with x placed at 0-based position i.
InsertAt(elems, i, x) ==
  [j \in 1..(Len(elems) + 1) |->
     IF j <= i THEN elems[j] ELSE IF j = i + 1 THEN x ELSE elems[j - 1]]

\* RepeatedFieldContainer<T>::DelItem: a write a message element type rejects.
RepDelItem(fd, elems, idx) ==
  LET i == WrapIndex(idx, Len(elems)) IN
  IF IsMessageCategory(fd)
    THEN ContainerOut("TypeMismatchError", <<>>, elems, NoHandle, <<>>)
  ELSE IF CheckIndex(i, -1, Len(elems)) # "none"
    THEN ContainerOut(CheckIndex(i, -1, Len(elems)), <<>>, elems, NoHandle, <<>>)
  ELSE ContainerOut("none", <<>>, RemoveAt(elems, i), NoHandle, <<>>)

\* RepeatedFieldContainer<T>::Append.
RepAppend(fd, elems, value) ==
  IF IsMessageCategory(fd)
    THEN ContainerOut("TypeMismatchError", <<>>, elems, NoHandle, <<>>)
  ELSE IF CoerceScalar(fd, value) # "ok"
    THEN ContainerOut(CoerceScalar(fd, value), <<>>, elems, NoHandle, <<>>)
  ELSE ContainerOut("none", <<>>, Append(elems, Payload(value)), NoHandle, <<>>)

\* RepeatedFieldContainer<T>::Insert: the index may equal the size.
RepInsert(fd, elems, idx, value) ==
  IF IsMessageCategory(fd)
    THEN ContainerOut("TypeMismatchError", <<>>, elems, NoHandle, <<>>)
  ELSE IF CheckIndex(idx, Len(elems) + 1, Len(elems)) # "none"
    THEN ContainerOut(CheckIndex(idx, Len(elems) + 1, Len(elems)), <<>>, elems,
                      NoHandle, <<>>)
  ELSE IF CoerceScalar(fd, value) # "ok"
    THEN ContainerOut(CoerceScalar(fd, value), <<>>, elems, NoHandle, <<>>)
  ELSE ContainerOut("none", <<>>, InsertAt(elems, idx, Payload(value)),
                    NoHandle, <<>>)

\* RepeatedFieldContainer<T>::Extend: whole messages are copied element-wise.
RepExtend(fd, elems, value) ==
  IF value.t # "list"
    THEN ContainerOut("TypeMismatchError", <<>>, elems, NoHandle, <<>>)
    ELSE LET r == ExtendFrom(fd, elems, value.l, 1) IN
         ContainerOut(r.exc, <<>>, r.elems, NoHandle, <<>>)

\* RepeatedFieldContainer<T>::Clear: a write a message element type rejects.
RepClear(fd, elems) ==
  IF IsMessageCategory(fd)
    THEN ContainerOut("TypeMismatchError", <<>>, elems, NoHandle, <<>>)
    ELSE ContainerOut("none", <<>>, <<>>, NoHandle, <<>>)

\* RepeatedFieldContainer<T>::Size.
RepSize(fd, elems) ==
  ContainerOut("none", <<>>, elems, Handle("value", fd.name, Len(elems), <<>>), <<>>)

\* AddMessage: AddDefault appends a default element, ProtoInitAttrs then applies
\* the keywords to it; the element stays when a keyword raises.
AddMessage(fd, elems, kwargs_in) ==
  LET r == ProtoInitAttrs(NewMessage(fd.message_type), kwargs_in) IN
  ContainerOut(r.exc, r.text, Append(elems, r.msg),
               IF r.exc = "none"
                 THEN Handle("message_view", fd.name, Len(elems), <<>>)
                 ELSE NoHandle,
               r.calls)

\* The classes BindEachFieldType<RepeatedFieldBindings> registers.
RepeatedClasses == [T \in FieldTypes |-> RepeatedFieldBindings(T)]

\* The container member behind a bound method.
RunMember(member, fd, elems, idx, value, kwargs_in) ==
  CASE member = "GetItem" -> RepGetItem(fd, elems, idx)
    [] member = "SetItem" -> RepSetItem(fd, elems, idx, value)
    [] member = "DelItem" -> RepDelItem(fd, elems, idx)
    [] member = "Append" -> RepAppend(fd, elems, value)
    [] member = "Insert" -> RepInsert(fd, elems, idx, value)
    [] member = "Extend" -> RepExtend(fd, elems, value)
    [] member = "Clear" -> RepClear(fd, elems)
    [] member = "Size" -> RepSize(fd, elems)
    [] member = "Add" -> AddMessage(fd, elems, kwargs_in)

\* A host call p.method(...) on a repeated container of field fd: a method the
\* class does not define raises in the host, a defined one runs its member.
RepeatedCall(fd, elems, method, idx, value, kwargs_in) ==
  IF method \notin DOMAIN RepeatedClasses[Category(fd)]
    THEN ContainerOut(IF method = "__setitem__" THEN "TypeError" ELSE "AttributeError",
                      <<>>, elems, NoHandle, <<>>)
    ELSE RunMember(RepeatedClasses[Category(fd)][method], fd, elems, idx, value,
                   kwargs_in)

\* ------------------------------------------------------- map containers
\* The key and value fields of a map field's entry type.
MapKeyDesc(fd) == FindFieldByName(fd.message_type, "key")
MapValueDesc(fd) == FindFieldByName(fd.message_type, "value")

\* Whether pybind11 loads a host object into a parameter of C++ type int.
LoadsAsInt(value) == value.t = "int"

\* A map class whose __setitem__ is SetItem for every value type.
MapFieldBindings_SetItemForAll(T) ==
  [m \in {"__setitem__", "__len__", "__contains__", "__getitem__", "clear"} |->
     CASE m = "__setitem__" -> "SetItem"
       [] m = "__len__" -> "Size"
       [] m = "__contains__" -> "Contains"
       [] m = "__getitem__" -> "GetItem"
       [] m = "clear" -> "Clear"]

\* A map class whose __getitem__ is the membership test.
MapFieldBindings_GetItemContains(T) ==
  [m \in {"__setitem__", "__len__", "__contains__", "__getitem__", "clear"} |->
     CASE m = "__setitem__" -> IF T = "Message" THEN "ThrowingLambda" ELSE "SetItem"
       [] m = "__len__" -> "Size"
       [] m = "__contains__" -> "Contains"
       [] m = "__getitem__" -> "Contains"
       [] m = "clear" -> "Clear"]

\* MapFieldBindings<T>: the host methods the class of a map container with
\* value type T defines and the member behind each (the iterators, update,
\* __repr__ and GetEntryClass are left out); for a message value type
\* __setitem__ is a lambda that throws.
MapFieldBindings(T) ==
  [m \in {"__setitem__", "__len__", "__contains__", "__getitem__", "clear"} |->
     CASE m = "__setitem__" -> IF T = "Message" THEN "ThrowingLambda" ELSE "SetItem"
       [] m = "__len__" -> "Size"
       [] m = "__contains__" -> "Contains"
       [] m = "__getitem__" -> "GetItem"
       [] m = "clear" -> "Clear"]

\* The classes BindEachFieldType<MapFieldBindings> registers.
MappedClasses == [T \in FieldTypes |-> MapFieldBindings(T)]

\* The lambda (void*, int, handle) bound as __setitem__: the host runs it when
\* the key loads as int; otherwise no overload matches and the host raises
\* TypeError. The map is not touched either way.
ThrowingLambda(fd, entries, key, value) ==
  IF LoadsAsInt(key)
    THEN ContainerOut("ValueError", <<"Cannot assign to message in a map field.">>,
                      entries, NoHandle, <<>>)
    ELSE ContainerOut("TypeError", <<>>, entries, NoHandle, <<>>)

\* The entries with `key` mapped to `v`.
PutEntry(entries, key, v) ==
  [k \in (DOMAIN entries) \cup {key} |-> IF k = key THEN v ELSE entries[k]]

\* MapFieldContainer<T>::SetItem: coerce the key and the value, then store.
MapSetItem(fd, entries, key, value) ==
  IF CoerceScalar(MapKeyDesc(fd), key) # "ok"
    THEN ContainerOut(CoerceScalar(MapKeyDesc(fd), key), <<>>, entries, NoHandle, <<>>)
  ELSE IF CoerceElement(MapValueDesc(fd), value) # "ok"
    THEN ContainerOut(CoerceElement(MapValueDesc(fd), value), <<>>, entries,
                      NoHandle, <<>>)
  ELSE ContainerOut("none", <<>>, PutEntry(entries, Payload(key), Payload(value)),
                    NoHandle, <<>>)

\* MapFieldContainer<T>::GetItem: a message-valued map inserts a default value
\* for an absent key and returns a view of it; any other map raises.
MapGetItem(fd, entries, key) ==
  IF CoerceScalar(MapKeyDesc(fd), key) # "ok"
    THEN ContainerOut(CoerceScalar(MapKeyDesc(fd), key), <<>>, entries, NoHandle, <<>>)
  ELSE IF IsMessageCategory(MapValueDesc(fd))
    THEN ContainerOut("none", <<>>,
                      IF Payload(key) \in DOMAIN entries THEN entries
                      ELSE PutEntry(entries, Payload(key),
                                    NewMessage(MapValueDesc(fd).message_type)),
                      Handle("message_view", fd.name, 0, <<>>), <<>>)
  ELSE IF Payload(key) \notin DOMAIN entries
    THEN ContainerOut("KeyMissingError", <<>>, entries, NoHandle, <<>>)
  ELSE ContainerOut("none", <<>>, entries,
                    Handle("value", fd.name, entries[Payload(key)], <<>>), <<>>)

\* MapFieldContainer<T>::Contains.
MapContains(fd, entries, key) ==
  IF CoerceScalar(MapKeyDesc(fd), key) # "ok"
    THEN ContainerOut(CoerceScalar(MapKeyDesc(fd), key), <<>>, entries, NoHandle, <<>>)
  ELSE ContainerOut("none", <<>>, entries,
                    Handle("value", fd.name,
                           IF Payload(key) \in DOMAIN entries THEN 1 ELSE 0, <<>>),
                    <<>>)

\* MapFieldContainer<T>::Size.
MapSize(fd, entries) ==
  ContainerOut("none", <<>>, entries,
               Handle("value", fd.name, Cardinality(DOMAIN entries), <<>>), <<>>)

\* MapFieldContainer<T>::Clear.
MapClear(fd, entries) == ContainerOut("none", <<>>, EmptyMap, NoHandle, <<>>)

\* A host call p.method(...) on the map container of field fd: the class is the
\* one registered for the value type.
MapCall(fd, entries, method, key, value) ==
  LET member == MappedClasses[Category(MapValueDesc(fd))][method] IN
  CASE member = "ThrowingLambda" -> ThrowingLambda(fd, entries, key, value)
    [] member = "SetItem" -> MapSetItem(fd, entries, key, value)
    [] member = "GetItem" -> MapGetItem(fd, entries, key)
    [] member = "Contains" -> MapContains(fd, entries, key)
    [] member = "Size" -> MapSize(fd, entries)
    [] member = "Clear" -> MapClear(fd, entries)

\* ------------------------------------------------------------ the wire codec
\* Message::SerializeAsString and Message::ParseFromString of the message
\* library. The wire is a sequence of tokens, each tagged with a field number:
\* a varint, a text payload, or a length-delimited field whose token gives the
\* number of tokens of its payload, which follow it.
Tok(f, wt, n, s) == [f |-> f, wt |-> wt, n |-> n, s |-> s]

\* The fields of a type in field-number order.
FieldOrder(type) ==
  CASE type = "pkg.Pair" -> <<"a", "e", "sub", "g", "xs", "rm", "rp", "m", "mm", "mi">>
    [] type \in {"pkg.Inner", "pkg.Pair.G"} -> <<"v">>
    [] OTHER -> <<"key", "value">>

\* The field of a type with a given number, NullDesc when the type has none.
FindFieldByNumber(type, number) ==
  IF number \in 1..Len(FieldOrder(type))
    THEN FindFieldByName(type, FieldOrder(type)[number])
    ELSE NullDesc

\* The wire type a field is written with.
WireType(fd) ==
  IF is_map(fd) \/ IsMessageCategory(fd) THEN "len"
  ELSE IF fd.type = "TYPE_STRING" THEN "str"
  ELSE "varint"

\* The sequences that list every element of S once.
RECURSIVE Orders(_)
Orders(S) ==
  IF S = {} THEN {<<>>}
  ELSE UNION {{<<x>> \o rest : rest \in Orders(S \ {x})} : x \in S}

\* A length-delimited field around a payload.
Delimited(f, body) == <<Tok(f, "len", Len(body), "")>> \o body

\* One scalar value of the field numbered f.
EncodeScalar(fd, f, v) ==
  IF fd.type = "TYPE_STRING" THEN <<Tok(f, "str", 0, v)>> ELSE <<Tok(f, "varint", v, "")>>

\* The encodings of a message. The library writes the fields in field-number
\* order, skips a singular field that holds its default, and writes the
\* entries of a map in the iteration order of the map instance, which it
\* leaves unspecified: every order of the entries is a possible output.
RECURSIVE Serializations(_)
RECURSIVE SerializeFrom(_, _)
RECURSIVE EncodeElements(_, _, _, _)
RECURSIVE EncodeEntries(_, _, _, _, _)

\* The elements elems[j..] of the repeated field numbered f.
EncodeElements(fd, f, elems, j) ==
  IF j > Len(elems) THEN {<<>>}
  ELSE LET head == IF IsMessageCategory(fd)
                     THEN {Delimited(f, b) : b \in Serializations(elems[j])}
                     ELSE {EncodeScalar(fd, f, elems[j])} IN
       {a \o b : a \in head, b \in EncodeElements(fd, f, elems, j + 1)}

\* The entries of the map field numbered f in the order keys[j..]; an entry is
\* a message with the key as field 1 and the value as field 2.
EncodeEntries(fd, f, entries, keys, j) ==
  IF j > Len(keys) THEN {<<>>}
  ELSE LET k == EncodeScalar(MapKeyDesc(fd), 1, keys[j])
           vs == IF IsMessageCategory(MapValueDesc(fd))
                   THEN {Delimited(2, b) : b \in Serializations(entries[keys[j]])}
                   ELSE {EncodeScalar(MapValueDesc(fd), 2, entries[keys[j]])}
           head == {Delimited(f, k \o v) : v \in vs} IN
       {a \o b : a \in head, b \in EncodeEntries(fd, f, entries, keys, j + 1)}

\* The encodings of the field numbered f of a message.
EncodeField(msg, f) ==
  LET fd == FindFieldByNumber(msg.type, f)
      v == msg.fields[fd.name] IN
  IF is_map(fd)
    THEN UNION {EncodeEntries(fd, f, v, keys, 1) : keys \in Orders(DOMAIN v)}
  ELSE IF is_repeated(fd) THEN EncodeElements(fd, f, v, 1)
  ELSE IF v = NewMessage(msg.type).fields[fd.name] THEN {<<>>}
  ELSE IF IsMessageCategory(fd) THEN {Delimited(f, b) : b \in Serializations(v)}
  ELSE {EncodeScalar(fd, f, v)}

SerializeFrom(msg, f) ==
  IF f > Len(FieldOrder(msg.type)) THEN {<<>>}
  ELSE {a \o b : a \in EncodeField(msg, f), b \in SerializeFrom(msg, f + 1)}

Serializations(msg) == SerializeFrom(msg, 1)

\* Message::MergeFromString: the tokens merged into msg, field by field; a
\* varint or text token sets or appends a scalar, a length-delimited token
\* carries a sub-message, an element or a map entry. A token whose number the
\* type lacks, or whose wire type is not the field's, goes to the unknown
\* fields, which the model does not keep.
RECURSIVE MergeFromString(_, _)

\* The value a map entry's payload carries.
EntryValue(fd, body) ==
  IF IsMessageCategory(MapValueDesc(fd))
    THEN MergeFromString(NewMessage(MapValueDesc(fd).message_type),
                         SubSeq(body, 3, Len(body)))
    ELSE body[2].n

\* The key a map entry's payload carries.
EntryKey(fd, body) ==
  IF MapKeyDesc(fd).type = "TYPE_STRING" THEN body[1].s ELSE body[1].n

MergeFromString(msg, toks) ==
  IF toks = <<>> THEN msg
  ELSE
    LET t == toks[1]
        fd == FindFieldByNumber(msg.type, t.f)
        body == SubSeq(toks, 2, 1 + t.n)
        rest == IF t.wt = "len" THEN SubSeq(toks, 2 + t.n, Len(toks)) ELSE Tail(toks)
        old == msg.fields[fd.name]
        new == IF is_map(fd) THEN PutEntry(old, EntryKey(fd, body), EntryValue(fd, body))
               ELSE IF is_repeated(fd)
                 THEN IF IsMessageCategory(fd)
                        THEN Append(old, MergeFromString(NewMessage(fd.message_type), body))
                        ELSE Append(old, t.n)
               ELSE IF IsMessageCategory(fd) THEN MergeFromString(old, body)
               ELSE IF t.wt = "str" THEN t.s ELSE t.n IN
    IF fd = NullDesc \/ WireType(fd) # t.wt
      THEN MergeFromString(msg, rest)
      ELSE MergeFromString(SetField(msg, fd.name, new), rest)

\* Message::ParseFromString: clear, then merge.
ParseFromString(msg, toks) == MergeFromString(NewMessage(msg.type), toks)

\* -------------------------------------------------------------- the state
\* w      the message bound to the host variable w (NoMsg before `w = ...`)
\* p, q   what the host variables p and q hold: handles obtained from w
\* last   the last host call: its operation, arguments and outcome
\* heap   the host's objects over one message, the host variables that name
\*        them and the keep-alive edges between them
\* desc   the descriptor view objects: their dynamic attributes, the number of
\*        derived maps generated so far, and the objects each property returned
\* pickled   the state __getstate__ returned for w, once the host has pickled it
\* u         the message __setstate__ built, or the target the host unpacks into
\* any_proto the Any message the host packs into
VARIABLES w, p, q, last, heap, desc, pickled, u, any_proto

vars == <<w, p, q, last, heap, desc, pickled, u, any_proto>>

\* The variables the attribute and container machines leave alone.
others == <<heap, desc, pickled, u, any_proto>>

\* The host variables of the lifetime machine.
HostVars == {"w", "c", "p", "e", "it"}

\* No object created, no variable bound.
EmptyHeap == [objs |-> <<>>, refs |-> [v \in HostVars |-> 0]]

\* The descriptor view objects of the pool, by the name of what they describe.
DescriptorViews == {"pkg.Pair", "pkg.Inner", "pkg.Pair.G", "pkg.Color"}

\* The lazy properties the bindings define.
PropertyNames == {"fields_by_name", "values_by_number", "values_by_name"}

\* No attribute set on any view, no derived map generated, nothing returned.
FreshViews ==
  [attrs |-> [view \in DescriptorViews |-> EmptyMap],
   made |-> 0,
   seen |-> [view \in DescriptorViews |-> [name \in PropertyNames |-> {}]]]

\* Nothing pickled yet.
NoPickle == [has |-> FALSE, serialized |-> <<>>, type_name |-> ""]

\* A default Any: no type URL, no value. `packed` is not a field of the
\* message: it remembers the object of the last Pack that returned, and is
\* PyNone when no Pack returned since the Any was last written.
EmptyAny == [type_url |-> <<>>, value |-> <<>>, packed |-> PyNone]

\* The other machines at rest.
OthersIdle ==
  /\ heap = EmptyHeap
  /\ desc = FreshViews
  /\ pickled = NoPickle
  /\ u = NoMsg
  /\ any_proto = EmptyAny

\* A keyword argument.
Kw(name, value) == [name |-> name, value |-> value]

\* The record of a host call; unused arguments keep their defaults.
HostCall(op, target, which, name, idx, key, value, kwargs, exc, text, ret, calls) ==
  [op |-> op, target |-> target, which |-> which, name |-> name, idx |-> idx,
   key |-> key, value |-> value, kwargs |-> kwargs, exc |-> exc, text |-> text,
   ret |-> ret, calls |-> calls]

\* A call on the module or on the message w.
LastCall(op, target, name, value, kwargs, exc, text, ret, calls) ==
  HostCall(op, target, "", name, 0, PyNone, value, kwargs, exc, text, ret, calls)

NoCall == LastCall("none", PyNone, "", PyNone, <<>>, "none", <<>>, NoHandle, <<>>)

InnerOf(type, v) == [type |-> type, fields |-> [n \in {"v"} |-> v]]

\* The objects the host passes as `type` to make_wrapped_c_proto.
TypeArgs ==
  {PyStr("pkg.Pair"), PyStr("pkg.Inner"), PyStr("pkg.DoesNotExist"),
   PyStr("pkg.Color"),
   PyProto("native", DefaultInstance("pkg.Pair")),
   PyProto("native", [type |-> "pkg.PyOnly", fields |-> EmptyMap]),
   PyProto("wrapped", DefaultInstance("pkg.Inner")),
   PyInt(5), PyNone, PyOddDescriptor}

\* The keyword arguments the host passes: right and wrong values per field.
KwPairs ==
  {Kw("a", PyInt(1)), Kw("a", PyBigInt),
   Kw("e", PyInt(2)),
   Kw("xs", PyList(<<PyInt(1), PyInt(2)>>)),
   Kw("rm", PyList(<<PyProto("wrapped", InnerOf("pkg.Inner", 1))>>)),
   Kw("m", PyDict([k \in {"k"} |-> PyInt(9)])),
   Kw("sub", PyProto("wrapped", InnerOf("pkg.Inner", 1))),
   Kw("v", PyInt(2)),
   Kw("nosuch", PyInt(1))}

DistinctNames(k) == \A i, j \in 1..Len(k) : i # j => k[i].name # k[j].name

\* Keyword lists of at most n keywords drawn from `pairs`.
RECURSIVE KwargsUpTo(_, _)
KwargsUpTo(pairs, n) ==
  IF n = 0 THEN {<<>>}
  ELSE KwargsUpTo(pairs, n - 1) \cup
       {Append(k, x) : k \in {k \in KwargsUpTo(pairs, n - 1) : Len(k) = n - 1},
                       x \in pairs}

\* Keyword names are unique in a call.
Kwargs == {k \in KwargsUpTo(KwPairs, MaxKwargs) : DistinctNames(k)}

\* The values the host assigns to attributes.
HostValues ==
  {PyInt(1), PyStr("k"), PyNone,
   PyProto("wrapped", InnerOf("pkg.Inner", 1)),
   PyProto("wrapped", InnerOf("pkg.Pair.G", 1))}

AttrNames == FieldNames("pkg.Pair") \cup {"v", "nosuch"}

Init ==
  /\ w = NoMsg
  /\ p = NoHandle
  /\ q = NoHandle
  /\ last = NoCall
  /\ OthersIdle

\* w = make_wrapped_c_proto(type, **kwargs), the host program's first call.
Make(py_proto, kwargs_in) ==
  \E r \in {PyProtoAllocateMessage(py_proto, kwargs_in)} :
  /\ last.op = "none"
  /\ w' = IF r.exc = "none" THEN r.msg ELSE w
  /\ p' = NoHandle
  /\ q' = NoHandle
  /\ last' = LastCall("make", py_proto, "", PyNone, kwargs_in, r.exc, r.text,
                      IF r.exc = "none" THEN Handle("message", r.msg.type, 0, <<>>)
                      ELSE NoHandle, r.calls)
  /\ UNCHANGED others

\* w.name = value
SetAttr(name, value) ==
  \E r \in {ProtoSetAttr(w, name, value)} :
  /\ w # NoMsg
  /\ w' = r.msg
  /\ last' = LastCall("setattr", PyNone, name, value, <<>>, r.exc, r.text,
                      NoHandle, r.calls)
  /\ UNCHANGED <<p, q>>
  /\ UNCHANGED others

\* w.name
GetAttr(name) ==
  \E r \in {ProtoGetAttr(w, name)} :
  /\ w # NoMsg
  /\ last' = LastCall("getattr", PyNone, name, PyNone, <<>>, r.exc, r.text,
                      r.ret, r.calls)
  /\ UNCHANGED <<w, p, q>>
  /\ UNCHANGED others

Next ==
  \/ \E py_proto \in TypeArgs, kwargs_in \in Kwargs : Make(py_proto, kwargs_in)
  \/ \E name \in AttrNames, value \in HostValues : SetAttr(name, value)
  \/ \E name \in AttrNames : GetAttr(name)

Spec == Init /\ [][Next]_vars

\* ------------------------------------------- the repeated-container machine
\* The host reads a repeated field of a default Pair into p, reads the same
\* field into q, and calls the container's methods through either.
RepeatedNames == {"xs", "rm", "rp"}

Held(which) == IF which = "p" THEN p ELSE q

\* The sequence a handle shows: a proxy shows the parent's field, a value copy
\* shows the elements it took.
Observe(h) == IF h.kind = "repeated_proxy" THEN w.fields[h.name] ELSE h.elems

\* Indices on both sides of the valid range of a field of n elements.
Indices(n) == (0 - (n + 1))..(n + 1)

ElemValues ==
  {PyInt(7), PyStr("k"), PyProto("wrapped", InnerOf("pkg.Inner", 1))}

Iterables ==
  {PyList(<<PyInt(1), PyInt(2)>>), PyList(<<PyInt(1), PyStr("k")>>),
   PyList(<<PyProto("wrapped", InnerOf("pkg.Inner", 1))>>), PyInt(1)}

AddKwargs ==
  {k \in KwargsUpTo({Kw("v", PyInt(2)),
                     Kw("m", PyDict([k \in {"k"} |-> PyInt(9)]))}, MaxKwargs) :
     DistinctNames(k)}

InitRepeated ==
  /\ w = NewMessage("pkg.Pair")
  /\ p = NoHandle
  /\ q = NoHandle
  /\ last = NoCall
  /\ OthersIdle

\* p = w.name
BindP(name) ==
  \E r \in {ProtoGetAttr(w, name)} :
  /\ p = NoHandle
  /\ p' = r.ret
  /\ last' = HostCall("getattr", PyNone, "p", name, 0, PyNone, PyNone, <<>>,
                      r.exc, r.text, r.ret, r.calls)
  /\ UNCHANGED <<w, q>>
  /\ UNCHANGED others

\* q = w.name, for the field p was read from
BindQ ==
  \E r \in {ProtoGetAttr(w, p.name)} :
  /\ p # NoHandle
  /\ q = NoHandle
  /\ q' = r.ret
  /\ last' = HostCall("getattr", PyNone, "q", p.name, 0, PyNone, PyNone, <<>>,
                      r.exc, r.text, r.ret, r.calls)
  /\ UNCHANGED <<w, p>>
  /\ UNCHANGED others

\* which.method(...) on a repeated container; the field stays within MaxLen.
RepOp(which, method, idx, value, kwargs_in) ==
  LET h == Held(which)
      fd == FindFieldByName(w.type, h.name) IN
  /\ h.kind \in {"repeated_proxy", "value"}
  /\ h.name \in RepeatedNames
  /\ \E r \in {RepeatedCall(fd, Observe(h), method, idx, value, kwargs_in)} :
       /\ Len(r.elems) <= MaxLen
       /\ IF h.kind = "repeated_proxy"
            THEN w' = SetField(w, h.name, r.elems) /\ UNCHANGED <<p, q>>
            ELSE /\ w' = w
                 /\ p' = IF which = "p" THEN [p EXCEPT !.elems = r.elems] ELSE p
                 /\ q' = IF which = "q" THEN [q EXCEPT !.elems = r.elems] ELSE q
       /\ last' = HostCall(method, PyNone, which, h.name, idx, PyNone, value,
                           kwargs_in, r.exc, r.text, r.ret, r.calls)
  /\ UNCHANGED others

Len_(which) == RepOp(which, "__len__", 0, PyNone, <<>>)
GetItem(which, idx) == RepOp(which, "__getitem__", idx, PyNone, <<>>)
SetItem(which, idx, value) == RepOp(which, "__setitem__", idx, value, <<>>)
DelItem(which, idx) == RepOp(which, "__delitem__", idx, PyNone, <<>>)
Append_(which, value) == RepOp(which, "append", 0, value, <<>>)
Insert(which, idx, value) == RepOp(which, "insert", idx, value, <<>>)
Extend(which, value) == RepOp(which, "extend", 0, value, <<>>)
MergeFrom(which, value) == RepOp(which, "MergeFrom", 0, value, <<>>)
Clear(which) == RepOp(which, "clear", 0, PyNone, <<>>)
Add(which, kwargs_in) == RepOp(which, "add", 0, PyNone, kwargs_in)

NextRepeated ==
  \/ \E name \in RepeatedNames : BindP(name)
  \/ Len_("p")
  \/ Clear("p")
  \/ \E idx \in Indices(Len(Observe(p))) : GetItem("p", idx)
  \/ \E idx \in Indices(Len(Observe(p))) : DelItem("p", idx)
  \/ \E idx \in Indices(Len(Observe(p))), value \in ElemValues : SetItem("p", idx, value)
  \/ \E idx \in Indices(Len(Observe(p))), value \in ElemValues : Insert("p", idx, value)
  \/ \E value \in ElemValues : Append_("p", value)
  \/ \E value \in Iterables : Extend("p", value)
  \/ \E value \in {PyList(<<PyInt(1), PyInt(2)>>),
                    PyList(<<PyProto("wrapped", InnerOf("pkg.Inner", 1))>>)} :
       MergeFrom("p", value)
  \/ \E kwargs_in \in AddKwargs : Add("p", kwargs_in)

SpecRepeated == InitRepeated /\ [][NextRepeated]_vars

\* Two proxies of one field: the host writes through either of them.
NextAlias ==
  \/ \E name \in RepeatedNames : BindP(name)
  \/ BindQ
  \/ \E which \in {"p", "q"} : Clear(which)
  \/ \E which \in {"p", "q"}, idx \in {0, -1} : DelItem(which, idx)
  \/ \E which \in {"p", "q"}, idx \in {0, -1} : SetItem(which, idx, PyInt(7))
  \/ \E which \in {"p", "q"}, idx \in {0, 1} : Insert(which, idx, PyInt(7))
  \/ \E which \in {"p", "q"} : Append_(which, PyInt(7))
  \/ \E which \in {"p", "q"} : Extend(which, PyList(<<PyInt(1), PyInt(2)>>))
  \/ \E which \in {"p", "q"}, kwargs_in \in AddKwargs : Add(which, kwargs_in)

SpecAlias == InitRepeated /\ [][NextAlias]_vars

\* ------------------------------------------------ the map-container machine
\* The host reads a map field of a default Pair into p, calls the container's
\* methods through it and writes through the views a message-valued map returns.
MapNames == {"m", "mm", "mi"}

MapKeys == {PyStr("k"), PyStr("j"), PyInt(1), PyInt(2), PyBigInt, PyNone}

MapValues ==
  {PyInt(7), PyInt(9), PyStr("k"), PyNone,
   PyProto("wrapped", InnerOf("pkg.Inner", 1))}

\* p.method(...) on a map container.
MapOp(method, key, value) ==
  /\ p.kind = "map_proxy"
  /\ \E r \in {MapCall(FindFieldByName(w.type, p.name), w.fields[p.name], method,
                       key, value)} :
       /\ w' = SetField(w, p.name, r.elems)
       /\ last' = HostCall(method, PyNone, "p", p.name, 0, key, value, <<>>,
                           r.exc, r.text, r.ret, r.calls)
  /\ UNCHANGED <<p, q>>
  /\ UNCHANGED others

KeyedWrite(key, value) == MapOp("__setitem__", key, value)
KeyedRead(key) == MapOp("__getitem__", key, PyNone)
KeyContains(key) == MapOp("__contains__", key, PyNone)
MapLength == MapOp("__len__", PyNone, PyNone)
MapClearAll == MapOp("clear", PyNone, PyNone)

\* p[key].name = value: an attribute write through the view of a map value.
ViewSetAttr(key, name, value) ==
  /\ p.kind = "map_proxy"
  /\ IsMessageCategory(MapValueDesc(FindFieldByName(w.type, p.name)))
  /\ CoerceScalar(MapKeyDesc(FindFieldByName(w.type, p.name)), key) = "ok"
  /\ Payload(key) \in DOMAIN w.fields[p.name]
  /\ \E r \in {ProtoSetAttr(w.fields[p.name][Payload(key)], name, value)} :
       /\ w' = SetField(w, p.name, PutEntry(w.fields[p.name], Payload(key), r.msg))
       /\ last' = HostCall("setattr", PyNone, "view", name, 0, key, value, <<>>,
                           r.exc, r.text, NoHandle, r.calls)
  /\ UNCHANGED <<p, q>>
  /\ UNCHANGED others

NextMap ==
  \/ \E name \in MapNames : BindP(name)
  \/ MapLength
  \/ MapClearAll
  \/ \E key \in MapKeys : KeyedRead(key)
  \/ \E key \in MapKeys : KeyContains(key)
  \/ \E key \in MapKeys, value \in MapValues : KeyedWrite(key, value)
  \/ \E key \in MapKeys, value \in {PyInt(5), PyStr("k")} : ViewSetAttr(key, "v", value)

SpecMap == InitRepeated /\ [][NextMap]_vars

\* ------------------------------------------------------ the lifetime machine
\* The host makes one message, reads a child view (c = w.sub) and a container
\* (p = w.rm or p = w.mm) from it, takes elements and iterators from the
\* container, and drops its variables in any order. An object lives while a
\* host variable names it or a living object keeps it alive.
Obj(kind, alias, pins) == [kind |-> kind, alias |-> alias, pins |-> pins]

\* The call policy a container class gives a bound method: add is defined with
\* return_value_policy::reference_internal, the iterator methods with
\* keep_alive<0, 1>, the other methods with neither.
CallPolicy_None(method) == "none"

CallPolicy(method) ==
  CASE method = "add" -> "reference_internal"
    [] method \in {"__iter__", "keys", "values", "items"} -> "keep_alive_0_1"
    [] OTHER -> "none"

\* The objects a call policy makes the returned object keep alive: both
\* policies tie the object the method was called on to the result.
Patients(policy, self) ==
  IF policy \in {"reference_internal", "keep_alive_0_1"} THEN {self} ELSE {}

\* The objects a view returned by an attribute read or an index read keeps
\* alive: the object it was read from.
ViewPins(parent) == {parent}

\* The objects reachable from `set` along keep-alive edges.
RECURSIVE Reach(_, _)
Reach(objs, set) ==
  LET next == set \cup UNION {objs[o].pins : o \in set} IN
  IF next = set THEN set ELSE Reach(objs, next)

\* The objects the host can name.
Referenced(h) == {h.refs[v] : v \in HostVars} \ {0}

\* The objects that have not been destroyed.
Alive(h) == Reach(h.objs, Referenced(h))

\* var = <a new object>
Bind(var, obj) ==
  /\ Len(heap.objs) < MaxObjs
  /\ heap' = [objs |-> Append(heap.objs, obj),
              refs |-> [heap.refs EXCEPT ![var] = Len(heap.objs) + 1]]
  /\ UNCHANGED <<w, p, q, last, desc, pickled, u, any_proto>>

\* w = make_wrapped_c_proto(...)
MakeW ==
  /\ heap.objs = <<>>
  /\ Bind("w", Obj("message", {}, {}))

\* c = w.sub
ReadChild ==
  /\ heap.refs["w"] # 0
  /\ Bind("c", Obj("child", {heap.refs["w"]}, ViewPins(heap.refs["w"])))

\* p = w.rm (kind "repeated") or p = w.mm (kind "map")
ReadContainer(kind) ==
  /\ heap.refs["w"] # 0
  /\ Bind("p", Obj(kind, {heap.refs["w"]}, ViewPins(heap.refs["w"])))

\* e = p.add()
CallAdd ==
  /\ heap.refs["p"] # 0
  /\ heap.objs[heap.refs["p"]].kind = "repeated"
  /\ Bind("e", Obj("element", heap.objs[heap.refs["p"]].alias,
                   Patients(CallPolicy("add"), heap.refs["p"])))

\* e = p[k]
CallGetItem ==
  /\ heap.refs["p"] # 0
  /\ Bind("e", Obj("element", heap.objs[heap.refs["p"]].alias,
                   ViewPins(heap.refs["p"])
                     \cup Patients(CallPolicy("__getitem__"), heap.refs["p"])))

\* it = p.method() for an iterator method of a map container
CallIter(method) ==
  /\ heap.refs["p"] # 0
  /\ heap.objs[heap.refs["p"]].kind = "map"
  /\ Bind("it", Obj("iterator",
                    {heap.refs["p"]} \cup heap.objs[heap.refs["p"]].alias,
                    Patients(CallPolicy(method), heap.refs["p"])))

\* del var
Del(var) ==
  /\ heap.refs[var] # 0
  /\ heap' = [heap EXCEPT !.refs[var] = 0]
  /\ UNCHANGED <<w, p, q, last, desc, pickled, u, any_proto>>

NextPin ==
  \/ MakeW
  \/ ReadChild
  \/ \E kind \in {"repeated", "map"} : ReadContainer(kind)
  \/ CallAdd
  \/ CallGetItem
  \/ \E method \in {"__iter__", "keys", "values", "items"} : CallIter(method)
  \/ \E var \in HostVars : Del(var)

SpecPin == Init /\ [][NextPin]_vars

\* ------------------------------------------------ the descriptor-view machine
\* The class a descriptor view is an instance of.
ClassOf(view) == IF view \in PoolEnumTypes THEN "EnumDescriptor" ELSE "Descriptor"

\* The properties DefConstantProperty defines on each class.
ConstantProperties(cls) ==
  IF cls = "Descriptor" THEN {"fields_by_name"}
  ELSE {"values_by_number", "values_by_name"}

\* The attribute name the wrapper caches under: "_cache_" + name.
CacheName(name) == <<"_cache_", name>>

\* A wrapper that invokes the generator on every access.
DefConstantProperty_NoCache(attrs, name, made) ==
  LET set == [a \in (DOMAIN attrs) \cup {CacheName(name)} |->
                IF a = CacheName(name) THEN made + 1 ELSE attrs[a]] IN
  [attrs |-> set, made |-> made + 1, ret |-> set[CacheName(name)],
   calls |-> <<Call("generator", name)>>]

\* The wrapper DefConstantProperty binds as the property getter, run on a view
\* with dynamic attributes `attrs` when `made` objects exist: without the cache
\* attribute it invokes the generator and sets the attribute to the new object;
\* it returns what the attribute holds.
DefConstantProperty(attrs, name, made) ==
  IF CacheName(name) \notin DOMAIN attrs
    THEN LET set == [a \in (DOMAIN attrs) \cup {CacheName(name)} |->
                       IF a = CacheName(name) THEN made + 1 ELSE attrs[a]] IN
         [attrs |-> set, made |-> made + 1, ret |-> set[CacheName(name)],
          calls |-> <<Call("generator", name)>>]
    ELSE [attrs |-> attrs, made |-> made, ret |-> attrs[CacheName(name)],
          calls |-> <<>>]

\* view.name, for a property the view's class defines.
GetProperty(view, name) ==
  /\ desc.made <= MaxGen
  /\ name \in ConstantProperties(ClassOf(view))
  /\ \E r \in {DefConstantProperty(desc.attrs[view], name, desc.made)} :
       /\ desc' = [attrs |-> [desc.attrs EXCEPT ![view] = r.attrs],
                   made |-> r.made,
                   seen |-> [desc.seen EXCEPT ![view][name] = @ \cup {r.ret}]]
       /\ last' = HostCall("property", PyStr(view), "", name, 0, PyNone, PyNone,
                           <<>>, "none", <<>>, Handle("object", name, r.ret, <<>>),
                           r.calls)
  /\ UNCHANGED <<w, p, q, heap, pickled, u, any_proto>>

\* view.name, for a property the view's class lacks.
GetMissingProperty(view, name) ==
  /\ name \notin ConstantProperties(ClassOf(view))
  /\ last' = HostCall("property", PyStr(view), "", name, 0, PyNone, PyNone,
                      <<>>, "AttributeError", <<>>, NoHandle, <<>>)
  /\ UNCHANGED <<w, p, q, heap, desc, pickled, u, any_proto>>

NextDesc ==
  \/ \E view \in DescriptorViews, name \in PropertyNames : GetProperty(view, name)
  \/ \E view \in DescriptorViews, name \in PropertyNames :
       GetMissingProperty(view, name)

SpecDesc == Init /\ [][NextDesc]_vars

\* ------------------------------------------------------- the pickle machine
\* A pickler whose loader allocates the message and does not parse the bytes.
SetState_NoParse(d) == PyProtoAllocateMessage(PyStr(d.type_name), <<>>)

\* MakePickler, the first lambda: the states __getstate__ can return for a
\* message, one per output of SerializeAsString.
GetState(message) ==
  {[has |-> TRUE, serialized |-> b, type_name |-> message.type] :
     b \in Serializations(message)}

\* MakePickler, the second lambda: allocate a message of d["type_name"], parse
\* d["serialized"] into it (the result of the parse is not looked at).
SetState(d) ==
  LET r == PyProtoAllocateMessage(PyStr(d.type_name), <<>>) IN
  IF r.exc # "none" THEN r
  ELSE Returned(ParseFromString(r.msg, d.serialized), r.calls)

\* The map fields the host has filled by keyed writes and keyed reads.
FilledMaps ==
  LET m == FindFieldByName("pkg.Pair", "m")
      mm == FindFieldByName("pkg.Pair", "mm")
      one == MapSetItem(m, EmptyMap, PyStr("k"), PyInt(9)).elems
      two == MapSetItem(m, one, PyStr("j"), PyInt(7)).elems
      msg == MapGetItem(mm, EmptyMap, PyStr("k")).elems IN
  {[m |-> a, mm |-> b] : a \in {EmptyMap, one, two}, b \in {EmptyMap, msg}}

\* The wrappers the host pickles: every Pair a construction with keywords
\* returns, with its maps filled, and an Inner.
PickleInputs ==
  {SetField(SetField(r.msg, "m", f.m), "mm", f.mm) :
     r \in {x \in {PyProtoAllocateMessage(PyStr("pkg.Pair"), k) : k \in Kwargs} :
              x.exc = "none"},
     f \in FilledMaps}
  \cup {InnerOf("pkg.Inner", 0), InnerOf("pkg.Inner", 2)}

InitPickle ==
  /\ w \in PickleInputs
  /\ p = NoHandle
  /\ q = NoHandle
  /\ last = NoCall
  /\ OthersIdle

\* pickled = w.__getstate__()
Pickle ==
  /\ \E d \in GetState(w) :
       /\ pickled' = d
       /\ last' = HostCall("__getstate__", PyNone, "w", "", 0, PyNone, PyNone, <<>>,
                           "none", <<>>, NoHandle, <<>>)
  /\ UNCHANGED <<w, p, q, heap, desc, u, any_proto>>

\* u = ProtoMessage.__setstate__(pickled)
Unpickle ==
  /\ pickled.has
  /\ \E r \in {SetState(pickled)} :
       /\ u' = IF r.exc = "none" THEN r.msg ELSE u
       /\ last' = HostCall("__setstate__", PyNone, "u", "", 0, PyNone, PyNone, <<>>,
                           r.exc, r.text,
                           IF r.exc = "none" THEN Handle("message", r.msg.type, 0, <<>>)
                           ELSE NoHandle, r.calls)
  /\ UNCHANGED <<w, p, q, heap, desc, pickled, any_proto>>

NextPickle ==
  \/ Pickle
  \/ Unpickle

SpecPickle == InitPickle /\ [][NextPickle]_vars

\* ---------------------------------------------------------- the Any machine
\* "type.googleapis.com/" + name, as the pieces of the text.
TypeUrl(name) == <<"type.googleapis.com", "/", name>>

\* Any::ParseAnyTypeUrl: the text after the last "/" of the URL; fails when the
\* URL has no "/" or nothing after it.
ParseAnyTypeUrl(type_url) ==
  LET slashes == {i \in 1..Len(type_url) : type_url[i] = "/"} IN
  IF slashes = {} THEN [ok |-> FALSE, name |-> ""]
  ELSE LET pos == CHOOSE i \in slashes : \A j \in slashes : j <= i IN
       IF pos = Len(type_url) THEN [ok |-> FALSE, name |-> ""]
       ELSE [ok |-> TRUE, name |-> type_url[pos + 1]]

\* PyProtoCheckType: the object is a proto whose full name is expected_type.
PyProtoCheckType(py_proto, expected_type) ==
  PyProtoFullName(py_proto).has /\ PyProtoFullName(py_proto).name = expected_type

\* hasattr(py_proto, "SerializeToString").
HasSerializeToString(py_proto) == py_proto.t \in {"wrapped", "native"}

\* PyProtoSerializeToString: the outcomes of py_proto.SerializeToString(), one
\* per output of the serializer, or invalid_argument without that method.
PyProtoSerializeToString(py_proto) ==
  IF HasSerializeToString(py_proto)
    THEN {[exc |-> "none", text |-> <<>>, bytes |-> b] :
            b \in Serializations(py_proto.msg)}
    ELSE {[exc |-> "invalid_argument",
           text |-> <<"Passed python object is not a proto.">>, bytes |-> <<>>]}

AnyOut(exc, text, ret, any) == [exc |-> exc, text |-> text, ret |-> ret, any |-> any]

\* A packer that writes the bare full name as the type URL.
AnyPackFromPyProto_BareName(py_proto, any) ==
  LET optional_name == PyProtoFullName(py_proto) IN
  IF ~optional_name.has THEN {AnyOut("none", <<>>, FALSE, any)}
  ELSE
    LET named == [any EXCEPT !.type_url = <<optional_name.name>>] IN
    {IF s.exc # "none" THEN AnyOut(s.exc, s.text, FALSE, named)
     ELSE AnyOut("none", <<>>, TRUE, [named EXCEPT !.value = s.bytes]) :
       s \in PyProtoSerializeToString(py_proto)}

\* AnyPackFromPyProto: false without a full name; else the type URL is written,
\* then the value is written with the serialized bytes, and the serializer's
\* exception leaves with the type URL already written.
AnyPackFromPyProto(py_proto, any) ==
  LET optional_name == PyProtoFullName(py_proto) IN
  IF ~optional_name.has THEN {AnyOut("none", <<>>, FALSE, any)}
  ELSE
    LET named == [any EXCEPT !.type_url = TypeUrl(optional_name.name)] IN
    {IF s.exc # "none" THEN AnyOut(s.exc, s.text, FALSE, named)
     ELSE AnyOut("none", <<>>, TRUE, [named EXCEPT !.value = s.bytes]) :
       s \in PyProtoSerializeToString(py_proto)}

\* Any.Pack: invalid_argument when the packer returns false.
Pack(self, py_proto) ==
  {IF r.exc = "none" /\ ~r.ret
     THEN AnyOut("invalid_argument", <<"Failed to pack Any proto.">>, FALSE, r.any)
     ELSE r : r \in AnyPackFromPyProto(py_proto, self)}

\* Any.Is: false when the type URL does not parse; else whether the parsed
\* name is the full_name attribute of the argument.
Is(self, descriptor) ==
  LET parsed == ParseAnyTypeUrl(self.type_url) IN
  IF ~parsed.ok THEN AnyOut("none", <<>>, FALSE, self)
  ELSE IF descriptor.t # "descriptor"
    THEN AnyOut("AttributeError", <<"full_name">>, FALSE, self)
  ELSE AnyOut("none", <<>>, parsed.name = descriptor.full_name, self)

\* Any.TypeName: the parsed name, empty when the type URL does not parse.
TypeName(self) == ParseAnyTypeUrl(self.type_url).name

\* AnyUnpackToPyProto: false unless the type URL parses to the full name of
\* py_proto; else py_proto parses the value and the result is true.
AnyUnpackToPyProto(any, py_proto) ==
  LET parsed == ParseAnyTypeUrl(any.type_url) IN
  IF ~parsed.ok \/ ~PyProtoCheckType(py_proto, parsed.name)
    THEN [ret |-> FALSE, msg |-> py_proto.msg]
    ELSE [ret |-> TRUE, msg |-> ParseFromString(py_proto.msg, any.value)]

\* A Pair with its maps filled.
FilledPair(f) == SetField(SetField(NewMessage("pkg.Pair"), "m", f.m), "mm", f.mm)

\* The objects the host packs: wrapped Pairs, native Inners, and objects that
\* are no protos.
PackInputs ==
  {PyProto("wrapped", FilledPair(f)) : f \in FilledMaps}
  \cup {PyProto("wrapped", SetField(NewMessage("pkg.Pair"), "a", 1)),
        PyProto("native", InnerOf("pkg.Inner", 0)),
        PyProto("native", InnerOf("pkg.Inner", 2)),
        PyNameOnly("pkg.Inner"), PyOddDescriptor, PyInt(5), PyNone}

\* The arguments the host tests the Any against.
IsInputs == {PyDescriptor(n) : n \in DescriptorViews} \cup {PyNone}

\* The messages the host unpacks into.
UnpackTargets ==
  {NewMessage("pkg.Pair"), SetField(NewMessage("pkg.Pair"), "a", 1),
   NewMessage("pkg.Inner"), InnerOf("pkg.Inner", 2)}

AnyCall(op, value, exc, text, ret) ==
  HostCall(op, PyNone, "any_proto", "", 0, PyNone, value, <<>>, exc, text, ret, <<>>)

Truth(b) == IF b THEN 1 ELSE 0

\* any_proto.Pack(py_proto)
HostPack(py_proto) ==
  /\ \E r \in Pack(any_proto, py_proto) :
       /\ any_proto' =
            [r.any EXCEPT !.packed = IF r.exc = "none" THEN py_proto
                                     ELSE IF r.any.type_url = any_proto.type_url
                                            /\ r.any.value = any_proto.value
                                       THEN any_proto.packed
                                     ELSE PyNone]
       /\ last' = AnyCall("Pack", py_proto, r.exc, r.text, NoHandle)
  /\ UNCHANGED <<w, p, q, heap, desc, pickled, u>>

\* any_proto.Is(descriptor)
HostIs(descriptor) ==
  /\ \E r \in {Is(any_proto, descriptor)} :
       last' = AnyCall("Is", descriptor, r.exc, r.text,
                       IF r.exc = "none" THEN Handle("value", "", Truth(r.ret), <<>>)
                       ELSE NoHandle)
  /\ UNCHANGED <<w, p, q, heap, desc, pickled, u, any_proto>>

\* any_proto.TypeName()
HostTypeName ==
  /\ last' = AnyCall("TypeName", PyNone, "none", <<>>,
                     Handle("text", TypeName(any_proto), 0, <<>>))
  /\ UNCHANGED <<w, p, q, heap, desc, pickled, u, any_proto>>

\* u = a message of the host
NewTarget(msg) ==
  /\ u' = msg
  /\ last' = AnyCall("target", PyNone, "none", <<>>, NoHandle)
  /\ UNCHANGED <<w, p, q, heap, desc, pickled, any_proto>>

\* any_proto.Unpack(u)
HostUnpack ==
  /\ u # NoMsg
  /\ \E r \in {AnyUnpackToPyProto(any_proto, PyProto("wrapped", u))} :
       /\ u' = r.msg
       /\ last' = AnyCall("Unpack", PyProto("wrapped", u), "none", <<>>,
                          Handle("value", "", Truth(r.ret), <<>>))
  /\ UNCHANGED <<w, p, q, heap, desc, pickled, any_proto>>

NextAny ==
  \/ \E py_proto \in PackInputs : HostPack(py_proto)
  \/ \E descriptor \in IsInputs : HostIs(descriptor)
  \/ HostTypeName
  \/ \E msg \in UnpackTargets : NewTarget(msg)
  \/ HostUnpack

SpecAny == Init /\ [][NextAny]_vars

\* ------------------------------------------------- the partial-effect machine
\* The host adds elements to a repeated message field with keywords, some of
\* which name no field, and packs protos and other objects into an Any.
PartialNames == {"rm", "rp"}

PartialKwargs ==
  {k \in KwargsUpTo({Kw("v", PyInt(2)), Kw("a", PyInt(1)),
                     Kw("m", PyDict([k \in {"k"} |-> PyInt(9)])),
                     Kw("nosuch", PyInt(1))}, MaxKwargs) :
     DistinctNames(k)}

NextPartial ==
  \/ \E name \in PartialNames : BindP(name)
  \/ \E kwargs_in \in PartialKwargs : Add("p", kwargs_in)
  \/ Clear("p")
  \/ \E py_proto \in PackInputs : HostPack(py_proto)

SpecPartial == InitRepeated /\ [][NextPartial]_vars

\* ------------------------------------------------------------------ claims
Contains(text, piece) == \E i \in 1..Len(text) : text[i] = piece

HandlerCalls(calls, name) ==
  {i \in 1..Len(calls) : calls[i].name = name /\ calls[i].h # "GetFieldDescriptor"}

LookedUp(calls) ==
  {calls[i].name : i \in {j \in 1..Len(calls) : calls[j].h = "GetFieldDescriptor"}}

\* The type name the `type` argument of the last make_wrapped_c_proto carries.
ArgIsNamed == last.target.t \in {"str", "wrapped", "native"}
ArgName == IF last.target.t = "str" THEN last.target.s ELSE last.target.msg.type

\* C1: make_wrapped_c_proto takes the type name from a text string, a wrapper
\* or a native proto's DESCRIPTOR.full_name; a name that is no message type of
\* the pool raises the unknown-type error and no message is returned; an
\* argument that is neither a string nor has DESCRIPTOR.full_name raises
\* invalid_argument; a message that is returned has the resolved type.
C1_MakeResolvesTypeName ==
  last.op = "make" =>
    /\ ~ArgIsNamed =>
         last.exc = "invalid_argument" /\ last.ret = NoHandle /\ w = NoMsg
    /\ (ArgIsNamed /\ ArgName \notin PoolMessageTypes) =>
         /\ last.exc = "runtime_error"
         /\ Contains(last.text, ArgName)
         /\ last.ret = NoHandle
         /\ w = NoMsg
    /\ (ArgIsNamed /\ ArgName \in PoolMessageTypes) =>
         /\ last.exc \notin {"invalid_argument", "runtime_error"}
         /\ last.exc = "none" =>
              (last.ret.kind = "message" /\ last.ret.name = ArgName /\ w.type = ArgName)

\* A native proto whose type the pool lacks was passed and the call raised.
C1_Witness ==
  /\ last.op = "make"
  /\ last.target.t = "native"
  /\ ArgName = "pkg.PyOnly"
  /\ last.exc = "runtime_error"

\* C2: construction applies every keyword to the field it names: a scalar or
\* enum keyword sets the field, a repeated keyword extends it from the iterable,
\* and a map keyword puts every entry of the mapping into the map field.
C2_KwargsApplyEveryKeyword ==
  (last.op = "make" /\ last.exc = "none") =>
    \A i \in 1..Len(last.kwargs) :
      LET kw == last.kwargs[i]
          fd == FindFieldByName(w.type, kw.name)
          got == w.fields[kw.name] IN
        IF is_map(fd)
          THEN \A k \in DOMAIN kw.value.d :
                 k \in DOMAIN got /\ got[k] = Payload(kw.value.d[k])
        ELSE IF is_repeated(fd)
          THEN got = [j \in 1..Len(kw.value.l) |-> Payload(kw.value.l[j])]
        ELSE IF IsMessageCategory(fd) THEN TRUE
        ELSE got = Payload(kw.value)

\* C3: attribute assignment to a map, repeated or singular message field raises
\* AttributeError for every value and leaves the message as it was; the singular
\* setter is reached only for singular scalar and enum fields.
C3_AssignmentGuard ==
  [][last'.op = "setattr" =>
      LET fd == FindFieldByName(w.type, last'.name) IN
        /\ (fd # NullDesc /\ (is_map(fd) \/ is_repeated(fd) \/ fd.type = "TYPE_MESSAGE"))
             => (last'.exc = "AttributeError" /\ w' = w)
        /\ HandlerCalls(last'.calls, last'.name) # {}
             => (~is_repeated(fd) /\ fd.type \in {"TYPE_INT32", "TYPE_ENUM", "TYPE_STRING"})
    ]_vars

\* The message type an attribute or keyword of the last call was looked up on.
LookupType == IF last.op = "make" THEN ArgName ELSE w.type

ParentView(name) == Observe(ProtoGetAttr(w, name).ret)

\* C5: the proxies obtained from a repeated field and the parent message show
\* the same sequence after every append, insert, extend, delete, index write
\* and clear through any of them; after p.append(x) the parent's length equals
\* the proxy's and the parent's element at -1 is x.
C5_Aliasing ==
  /\ \A h \in {p, q} : h # NoHandle => Observe(h) = ParentView(h.name)
  /\ (last.op = "append" /\ last.exc = "none") =>
       LET fd == FindFieldByName(w.type, last.name) IN
         /\ RepSize(fd, ParentView(last.name)).ret.value
              = RepSize(fd, Observe(Held(last.which))).ret.value
         /\ RepGetItem(fd, ParentView(last.name), -1).ret.value = Payload(last.value)

\* An append through p is seen through q after an extend.
C5_Witness ==
  /\ last.op = "append"
  /\ last.which = "p"
  /\ last.exc = "none"
  /\ q # NoHandle
  /\ Observe(q) = <<1, 2, 7>>

\* C6: append and extend add at the end in iteration order, insert(i, x) puts x
\* at position i and shifts the former elements [i..n) right by one, delete at i
\* removes the element at i and shifts the later ones left; every other element
\* keeps its value and order.
C6_PositionalOrdering ==
  [][(last'.op \in {"append", "extend", "insert", "__delitem__"} /\ last'.exc = "none") =>
       LET old == w.fields[last'.name]
           new == w'.fields[last'.name]
           n == Len(old)
           idx == last'.idx IN
         /\ last'.op = "append" => new = old \o <<Payload(last'.value)>>
         /\ last'.op = "extend" =>
              new = old \o [j \in 1..Len(last'.value.l) |-> Payload(last'.value.l[j])]
         /\ last'.op = "insert" =>
              /\ 0 <= idx /\ idx <= n
              /\ Len(new) = n + 1
              /\ new[idx + 1] = Payload(last'.value)
              /\ \A j \in 1..idx : new[j] = old[j]
              /\ \A j \in (idx + 1)..n : new[j + 1] = old[j]
         /\ last'.op = "__delitem__" =>
              LET i == IF idx < 0 THEN idx + n ELSE idx IN
                /\ Len(new) = n - 1
                /\ \A j \in 1..i : new[j] = old[j]
                /\ \A j \in (i + 2)..n : new[j - 1] = old[j]
    ]_vars

\* extend([1, 2]) then insert(0, 7) gives [7, 1, 2].
C6_Witness ==
  /\ last.op = "insert"
  /\ last.idx = 0
  /\ last.value = PyInt(7)
  /\ last.exc = "none"
  /\ w.fields["xs"] = <<7, 1, 2>>

\* C7: on a repeated field of n elements an index read with i in [-n, n)
\* returns the element at i (at n + i for a negative i); an index outside
\* [-n, n) raises out_of_range; the read leaves the field unchanged; and the
\* index check rejects exactly the indices below 0 or not below the allowed
\* size, a negative allowed size meaning the current size.
C7_IndexRead ==
  [][last'.op = "__getitem__" =>
       LET fd == FindFieldByName(w.type, last'.name)
           old == w.fields[last'.name]
           n == Len(old)
           idx == last'.idx
           pos == IF idx < 0 THEN n + idx ELSE idx IN
         /\ w' = w
         /\ (0 - n <= idx /\ idx < n) =>
              /\ last'.exc = "none"
              /\ IF IsMessageCategory(fd)
                   THEN last'.ret.kind = "message_view" /\ last'.ret.value = pos
                   ELSE last'.ret.kind = "value" /\ last'.ret.value = old[pos + 1]
         /\ ~(0 - n <= idx /\ idx < n) => last'.exc = "out_of_range"
         /\ \A i \in (0 - (n + 2))..(n + 2), allowed \in (0 - 1)..(n + 1) :
              (CheckIndex(i, allowed, n) = "out_of_range")
                <=> (i < 0 \/ i >= (IF allowed < 0 THEN n ELSE allowed))
    ]_vars

\* A negative index reads the first of three elements.
C7_Witness ==
  /\ last.op = "__getitem__"
  /\ last.idx = 0 - 3
  /\ last.exc = "none"
  /\ Len(w.fields["xs"]) = 3
  /\ last.ret.value = w.fields["xs"][1]
  /\ w.fields["xs"][1] # w.fields["xs"][3]

\* Whether the field a keyword names holds the keyword's value.
HoldsKeyword(msg, kw) ==
  LET fd == FindFieldByName(msg.type, kw.name)
      got == msg.fields[kw.name] IN
    IF is_map(fd)
      THEN \A k \in DOMAIN kw.value.d :
             k \in DOMAIN got /\ got[k] = Payload(kw.value.d[k])
    ELSE IF is_repeated(fd)
      THEN got = [j \in 1..Len(kw.value.l) |-> Payload(kw.value.l[j])]
    ELSE got = Payload(kw.value)

\* C8: a successful add(**kwargs) on a repeated message field makes the field
\* one longer, leaves the elements it had unchanged, and returns a view of the
\* new last element, whose fields hold the keyword values and defaults elsewhere.
C8_AddAppendsInitialised ==
  [][(last'.op = "add" /\ last'.exc = "none") =>
       LET fd == FindFieldByName(w.type, last'.name)
           old == w.fields[last'.name]
           new == w'.fields[last'.name]
           n == Len(old)
           kw == last'.kwargs IN
         /\ IsMessageCategory(fd)
         /\ Len(new) = n + 1
         /\ \A j \in 1..n : new[j] = old[j]
         /\ last'.ret = Handle("message_view", last'.name, n, <<>>)
         /\ new[n + 1].type = fd.message_type
         /\ \A fn \in FieldNames(fd.message_type) :
              IF \E i \in 1..Len(kw) : kw[i].name = fn
                THEN \A i \in 1..Len(kw) :
                       kw[i].name = fn => HoldsKeyword(new[n + 1], kw[i])
                ELSE new[n + 1].fields[fn] = NewMessage(fd.message_type).fields[fn]
    ]_vars

C10_MapMessageAssignmentRejected ==
  [][last'.op = "__setitem__" =>
       LET fd == FindFieldByName(w.type, last'.name)
           old == w.fields[last'.name]
           new == w'.fields[last'.name]
           key == last'.key IN
         IF IsMessageCategory(MapValueDesc(fd))
           THEN /\ last'.exc # "none"
                /\ new = old
                /\ Cardinality(DOMAIN new) = Cardinality(DOMAIN old)
                /\ w' = w
           ELSE (CoerceScalar(MapKeyDesc(fd), key) = "ok"
                 /\ CoerceScalar(MapValueDesc(fd), last'.value) = "ok") =>
                  /\ last'.exc = "none"
                  /\ DOMAIN new = (DOMAIN old) \cup {Payload(key)}
                  /\ new[Payload(key)] = Payload(last'.value)
                  /\ \A k \in (DOMAIN old) \ {Payload(key)} : new[k] = old[k]
    ]_vars

\* A message was assigned under an int key of a map that holds a value a view
\* has written to.
C10_Witness ==
  /\ last.op = "__setitem__"
  /\ last.name = "mi"
  /\ last.key = PyInt(1)
  /\ IsProto(last.value)
  /\ last.exc = "ValueError"
  /\ 1 \in DOMAIN w.fields["mi"]
  /\ w.fields["mi"][1].fields["v"] = 5

\* C11: a keyed read of an absent key puts a default entry under the key (the
\* length grows by one, the key becomes contained, the other entries stay) only
\* on a map whose value type is a message; on a map with a scalar or enum value
\* type it raises the missing-key error and leaves the map as it was; a keyed
\* read of a present key, and a read that raises, never change the map.
C11_KeyedReadInsertsOnlyForMessages ==
  [][last'.op = "__getitem__" =>
       LET fd == FindFieldByName(w.type, last'.name)
           old == w.fields[last'.name]
           new == w'.fields[last'.name]
           key == last'.key IN
         /\ last'.exc # "none" => w' = w
         /\ CoerceScalar(MapKeyDesc(fd), key) = "ok" =>
              IF Payload(key) \in DOMAIN old
                THEN /\ w' = w
                     /\ last'.exc = "none"
              ELSE IF IsMessageCategory(MapValueDesc(fd))
                THEN /\ last'.exc = "none"
                     /\ DOMAIN new = (DOMAIN old) \cup {Payload(key)}
                     /\ Cardinality(DOMAIN new) = Cardinality(DOMAIN old) + 1
                     /\ new[Payload(key)] = NewMessage(MapValueDesc(fd).message_type)
                     /\ \A k \in DOMAIN old : new[k] = old[k]
                     /\ MapContains(fd, new, key).ret.value = 1
                ELSE /\ last'.exc = "KeyMissingError"
                     /\ w' = w
    ]_vars

\* An absent key was read from a message-valued map that held another entry.
C11_Witness ==
  /\ last.op = "__getitem__"
  /\ last.name = "mm"
  /\ last.key = PyStr("j")
  /\ last.exc = "none"
  /\ DOMAIN w.fields["mm"] = {"k", "j"}
  /\ w.fields["mm"]["k"].fields["v"] = 5
  /\ w.fields["mm"]["j"].fields["v"] = 0

\* C12: every view the host still names (a child message, a repeated or map
\* container, a map iterator, an element returned by add or by an index read)
\* aliases only objects that have not been destroyed: the message, and for an
\* iterator the container too, whichever variables were dropped.
C12_ParentPin ==
  \A v \in HostVars :
    heap.refs[v] # 0 => heap.objs[heap.refs[v]].alias \subseteq Alive(heap)

\* w and p were dropped while an element that add returned and an iterator are
\* still named.
C12_Witness ==
  /\ heap.refs["w"] = 0
  /\ heap.refs["p"] = 0
  /\ heap.refs["c"] = 0
  /\ heap.refs["e"] # 0
  /\ heap.refs["it"] # 0
  /\ heap.objs[heap.refs["e"]].pins # {}
  /\ \E o \in heap.objs[heap.refs["e"]].pins : heap.objs[o].kind = "repeated"
  /\ 1 \in Alive(heap)

\* C13: on every descriptor view and for every lazy property the generator
\* runs on the first access only, the object it made is stored on the view
\* under _cache_<name>, every later access returns that stored object without
\* running the generator, and so all accesses return one and the same object.
C13_LazyPropertyCachedOnce ==
  [][(last'.op = "property" /\ last'.exc = "none") =>
       LET view == last'.target.s
           name == last'.name
           before == desc.attrs[view]
           after == desc'.attrs[view] IN
         /\ CacheName(name) \in DOMAIN after
         /\ last'.ret.value = after[CacheName(name)]
         /\ IF CacheName(name) \in DOMAIN before
              THEN /\ last'.calls = <<>>
                   /\ desc'.made = desc.made
                   /\ after = before
                   /\ last'.ret.value = before[CacheName(name)]
              ELSE /\ last'.calls = <<Call("generator", name)>>
                   /\ desc'.made = desc.made + 1
                   /\ \A v \in DescriptorViews :
                        \A a \in DOMAIN desc.attrs[v] :
                          desc.attrs[v][a] # last'.ret.value
         /\ \A v \in DescriptorViews \ {view} : desc'.attrs[v] = desc.attrs[v]
         /\ \A v \in DescriptorViews, n \in PropertyNames :
              Cardinality(desc'.seen[v][n]) <= 1
    ]_vars

\* A property was read again after another view's property had been generated.
C13_Witness ==
  /\ last.op = "property"
  /\ last.target = PyStr("pkg.Color")
  /\ last.name = "values_by_name"
  /\ last.calls = <<>>
  /\ last.ret.value = 1
  /\ desc.made >= 3
  /\ desc.seen["pkg.Color"]["values_by_name"] = {1}

\* Whether every map field of a message holds at most one entry.
MapsAtMostOne(msg) ==
  \A n \in FieldNames(msg.type) :
    is_map(FindFieldByName(msg.type, n)) => Cardinality(DOMAIN msg.fields[n]) <= 1

Packed == any_proto.packed

\* What C15 says of Pack, TypeName and Is, and of which targets Unpack accepts.
AnyHoldsPacked ==
  /\ (last.op = "Pack" /\ last.exc = "none") =>
       (Packed = last.value /\ IsProto(last.value))
  /\ Packed # PyNone =>
       /\ any_proto.type_url = TypeUrl(Packed.msg.type)
       /\ any_proto.value \in Serializations(Packed.msg)
  /\ (last.op = "TypeName" /\ Packed # PyNone) => last.ret.name = Packed.msg.type
  /\ (last.op = "Is" /\ Packed # PyNone /\ last.value.t = "descriptor") =>
       /\ last.exc = "none"
       /\ last.ret.value = 1 <=> last.value.full_name = Packed.msg.type
  /\ (last.op = "Unpack" /\ Packed # PyNone /\ last.ret.value = 1) =>
       last.value.msg.type = Packed.msg.type

C16_GroupAssignmentRejected ==
  [][LET fd == FindFieldByName(w.type, last'.name) IN
     (last'.op = "setattr" /\ fd # NullDesc /\ ~is_repeated(fd)
        /\ fd.type = "TYPE_GROUP") =>
       /\ last'.exc = "AttributeError"
       /\ last'.text = <<"Assignment not allowed to field \"", last'.name,
                         "\" in protocol message object.">>
       /\ w' = w
       /\ HandlerCalls(last'.calls, last'.name) = {}
    ]_vars

\* The position of the first keyword that names no field of a type, 0 if none.
FirstUnknown(type, kw) ==
  LET unknown == {i \in 1..Len(kw) : kw[i].name \notin FieldNames(type)} IN
  IF unknown = {} THEN 0 ELSE CHOOSE i \in unknown : \A j \in unknown : i <= j

\* C17: add(**kwargs) with a keyword that names an unknown field raises
\* AttributeError with the repeated field one longer, its earlier elements
\* unchanged and the keywords before the failing one applied to the new
\* element; Pack of an object with DESCRIPTOR.full_name and no
\* SerializeToString raises with type_url overwritten and value unchanged; Pack
\* of an object without DESCRIPTOR.full_name raises with both unchanged.
C17_PartialEffects ==
  [][/\ (last'.op = "add"
           /\ IsMessageCategory(FindFieldByName(w.type, last'.name))
           /\ FirstUnknown(FindFieldByName(w.type, last'.name).message_type,
                           last'.kwargs) # 0) =>
          LET fd == FindFieldByName(w.type, last'.name)
              old == w.fields[last'.name]
              new == w'.fields[last'.name]
              kw == last'.kwargs
              bad == FirstUnknown(fd.message_type, kw) IN
            /\ last'.exc = "AttributeError"
            /\ Len(new) = Len(old) + 1
            /\ \A j \in 1..Len(old) : new[j] = old[j]
            /\ \A i \in 1..(bad - 1) : HoldsKeyword(new[Len(old) + 1], kw[i])
     /\ (last'.op = "Pack" /\ PyProtoFullName(last'.value).has
           /\ ~HasSerializeToString(last'.value)) =>
          /\ last'.exc = "invalid_argument"
          /\ any_proto'.type_url = TypeUrl(PyProtoFullName(last'.value).name)
          /\ any_proto'.value = any_proto.value
     /\ (last'.op = "Pack" /\ ~PyProtoFullName(last'.value).has) =>
          /\ last'.exc = "invalid_argument"
          /\ any_proto'.type_url = any_proto.type_url
          /\ any_proto'.value = any_proto.value
    ]_vars

============================================================================
